---------------------------- MODULE Spec2Model ----------------------------
(***************************************************************************)
(* Model of the SSD1306 display driver of src/ssd1306/ssd1306.go.          *)
(*                                                                         *)
(* The driver holds three collaborators: the SPI device (bus sink), the    *)
(* data/command select pin (dcPin) and the reset pin (resetPin).  It has   *)
(* no state of its own.  The model records, for the operation that ran     *)
(* last, every call the driver made on a collaborator, in order, together  *)
(* with what the collaborator answered, and the value the operation        *)
(* returned.  The collaborators are fakes: each call's answer is chosen    *)
(* nondeterministically, and a digital line keeps the level of the last    *)
(* SetValue that succeeded.                                                *)
(*                                                                         *)
(* src/unnamed/part_000 is an earlier revision of the same file (four      *)
(* commands, the same Reset and sendCommand); the model follows            *)
(* src/ssd1306/ssd1306.go.                                                 *)
(***************************************************************************)
EXTENDS Integers, Sequences, FiniteSets, TLC

VARIABLES
    pc,          \* "idle": no call in progress; "done": an operation returned
    op,          \* the operation that ran last and its arguments
    calls,       \* the collaborator calls that operation made, in order
    ret,         \* the error value it returned ("nil" is success)
    dcLevel,     \* level of the select line (fake gpio.ValueSetter)
    resetLevel   \* level of the reset line (fake gpio.ValueSetter)

vars == <<pc, op, calls, ret, dcLevel, resetLevel>>

----------------------------------------------------------------------------
(* Bounds and widths *)

\* Width of Go's byte type, the type of every argument and command byte.
ByteBits == 8

\* How far above len(data) the count reported by the fake bus may lie.
MaxOverCount == 1

Byte == 0 .. (2 ^ ByteBits - 1)

\* Arguments tried for the two-argument packing operations: values inside
\* the low nibble, on its edge, and with bits above it.
LowProbes  == {0, 2, 3, 15, 16, 35, 128, 255}
HighProbes == {0, 1, 8, 15, 16, 255}

\* Error values a collaborator may report.
Errors == {"EIO", "EACCES"}

----------------------------------------------------------------------------
(* Byte arithmetic of Go: |, & and << on uint8 *)

RECURSIVE BitOr(_, _)
BitOr(a, b) ==
    IF a = 0 THEN b
    ELSE IF b = 0 THEN a
    ELSE (IF (a % 2) = 1 \/ (b % 2) = 1 THEN 1 ELSE 0)
         + 2 * BitOr(a \div 2, b \div 2)

\* x << k on a byte: the bits shifted out of the byte are lost.
Shl(x, k) == (x * (2 ^ k)) % (2 ^ ByteBits)

----------------------------------------------------------------------------
(* The enumerated settings: member name -> byte value (the const blocks) *)

ChargePumpSetting == {"ChargePumpDisabled", "ChargePumpEnabled"}
ChargePumpSettingByte(m) ==
    CASE m = "ChargePumpDisabled" -> 20      \* 0x14
      [] m = "ChargePumpEnabled"  -> 16      \* 0x10

MemoryAddressingMode ==
    {"HorizontalAddressing", "VerticalAddressing", "PageAddressing"}
MemoryAddressingModeByte(m) ==
    CASE m = "HorizontalAddressing" -> 0
      [] m = "VerticalAddressing"   -> 1
      [] m = "PageAddressing"       -> 2

SegmentRemapMode == {"Map0ToSeg0", "Map127ToSeg0"}
SegmentRemapModeByte(m) ==
    CASE m = "Map0ToSeg0"   -> 0
      [] m = "Map127ToSeg0" -> 1

ComOutputScanDirection == {"ScanAscending", "ScanDescending"}
ComOutputScanDirectionByte(m) ==
    CASE m = "ScanAscending"  -> 192         \* 0xc0
      [] m = "ScanDescending" -> 200         \* 0xc8

VcomhDeselectLevel == {"VccTimesPoint65", "VccTimesPoint77", "VccTimesPoint83"}
VcomhDeselectLevelByte(m) ==
    CASE m = "VccTimesPoint65" -> 0          \* 0x00
      [] m = "VccTimesPoint77" -> 32         \* 0x20
      [] m = "VccTimesPoint83" -> 48         \* 0x30

ComPinConfig == {"SequentialComPinConfig", "AlternativeComPinConfig"}
ComPinConfigByte(m) ==
    CASE m = "SequentialComPinConfig"  -> 0
      [] m = "AlternativeComPinConfig" -> 16

LeftRightRemap == {"DisableComLeftRightRemap", "EnableComLeftRightRemap"}
LeftRightRemapByte(m) ==
    CASE m = "DisableComLeftRightRemap" -> 0
      [] m = "EnableComLeftRightRemap"  -> 32

----------------------------------------------------------------------------
(* The command byte sequence each operation hands to sendCommand *)

InvertCmd   == <<167>>                       \* 0xA7
UninvertCmd == <<166>>                       \* 0xA6
TurnOffCmd  == <<174>>                       \* 0xAE
TurnOnCmd   == <<175>>                       \* 0xAF
ForceEntireDisplayOnCmd       == <<164>>     \* 0xA4
StopForcingEntireDisplayOnCmd == <<165>>     \* 0xA5

SetChargePumpCmd(setting) == <<141, ChargePumpSettingByte(setting)>>   \* 0x8D

ConfigureClockCmd(clkDivRatio, oscFreqSetting) ==
    LET packedValue == BitOr(Shl(oscFreqSetting, 4), clkDivRatio)
    IN  <<141, packedValue>>                                         \* 0x8D

SetComOutputScanDirectionCmd(direction) ==
    <<ComOutputScanDirectionByte(direction)>>

\* Variant of ConfigureComPinsHardwareCmd with the fixed bit taken as bit 2
\* (4) instead of the value 2.
ConfigureComPinsHardwareCmd_FixedBit2(pinConfig, leftRightRemap) ==
    LET packedValue == BitOr(BitOr(4, ComPinConfigByte(pinConfig)),
                             LeftRightRemapByte(leftRightRemap))
    IN  <<218, packedValue>>

ConfigureComPinsHardwareCmd(pinConfig, leftRightRemap) ==
    LET packedValue == BitOr(BitOr(2, ComPinConfigByte(pinConfig)),
                             LeftRightRemapByte(leftRightRemap))
    IN  <<218, packedValue>>                                         \* 0xDA

SetContrastCmd(contrast) == <<129, contrast>>                        \* 0x81

SetOffsetCmd(offset) == <<211, offset>>                              \* 0xD3

SetStartLineCmd(startLine) ==
    LET packedValue == BitOr(64, startLine)                          \* 0x40
    IN  <<packedValue>>

SetMemoryAddressingModeCmd(mode) ==
    <<32, MemoryAddressingModeByte(mode)>>                           \* 0x20

SetMultiplexRatioCmd(ratio) == <<168, ratio>>                        \* 0xA8

SetPrechargePeriodCmd(phase1Ticks, phase2Ticks) ==
    LET packedValue == BitOr(Shl(phase2Ticks, 4), phase1Ticks)
    IN  <<217, packedValue>>                                         \* 0xD9

SetSegmentRemapCmd(mode) ==
    LET packedValue == BitOr(160, SegmentRemapModeByte(mode))        \* 0xA0
    IN  <<packedValue>>

SetVcomhDeselectLevelCmd(level) ==
    <<219, VcomhDeselectLevelByte(level)>>                           \* 0xDB

----------------------------------------------------------------------------
(* Collaborator calls, as recorded *)

NoData == <<>>

\* gpio.ValueSetter.SetValue(level) on the line `line`, answering err.
LineCall(line, level, err) ==
    [dev |-> line, level |-> level, data |-> NoData, n |-> 0, err |-> err]

\* spi.WritableDevice.Write(data), answering (n, err).
WriteCall(data, n, err) ==
    [dev |-> "spi", level |-> "none", data |-> data, n |-> n, err |-> err]

\* What the fake bus may answer to Write(data).
WriteAnswers(data) ==
    [n : 0 .. (Len(data) + MaxOverCount), err : {"nil"} \cup Errors]

\* Level of a fake line after SetValue(level) answered err.
LineAfter(old, level, err) == IF err = "nil" THEN level ELSE old

----------------------------------------------------------------------------
(* The two primitives *)

\* Variant of sendCommand with the commented-out last statement active: the
\* select line is set back to High after a complete write.
sendCommand_RestoresData(data, dcErr, wr) ==
    LET made == << LineCall("dc", "Low", dcErr), WriteCall(data, wr.n, wr.err) >>
    IN  IF wr.err # "nil" THEN [calls |-> made, ret |-> wr.err]
        ELSE IF wr.n # Len(data) THEN [calls |-> made, ret |-> "Short write"]
        ELSE [calls |-> Append(made, LineCall("dc", "High", "nil")), ret |-> "nil"]

\* Variant of sendCommand that does not compare the written count with
\* len(data).
sendCommand_NoCountCheck(data, dcErr, wr) ==
    LET made == << LineCall("dc", "Low", dcErr), WriteCall(data, wr.n, wr.err) >>
    IN  IF wr.err # "nil" THEN [calls |-> made, ret |-> wr.err]
        ELSE [calls |-> made, ret |-> "nil"]

\* display.sendCommand: returns the calls made and the error returned.
\* The error of dcPin.SetValue is discarded by the code.
sendCommand(data, dcErr, wr) ==
    LET made == << LineCall("dc", "Low", dcErr), WriteCall(data, wr.n, wr.err) >>
    IN  IF wr.err # "nil" THEN [calls |-> made, ret |-> wr.err]
        ELSE IF wr.n # Len(data) THEN [calls |-> made, ret |-> "Short write"]
        ELSE [calls |-> made, ret |-> "nil"]

\* Variant of Reset that does not test the error of the second SetValue.
ResetRun_SecondUnchecked(e1, e2, e3) ==
    LET c1 == LineCall("reset", "High", e1)
        c2 == LineCall("reset", "Low", e2)
        c3 == LineCall("reset", "High", e3)
    IN  IF e1 # "nil" THEN [calls |-> <<c1>>, ret |-> e1]
        ELSE [calls |-> <<c1, c2, c3>>, ret |-> e3]

\* display.Reset: e1, e2, e3 are the answers the reset line would give to
\* the first, second and third SetValue.
ResetRun(e1, e2, e3) ==
    LET c1 == LineCall("reset", "High", e1)
        c2 == LineCall("reset", "Low", e2)
        c3 == LineCall("reset", "High", e3)
    IN  IF e1 # "nil" THEN [calls |-> <<c1>>, ret |-> e1]
        ELSE IF e2 # "nil" THEN [calls |-> <<c1, c2>>, ret |-> e2]
        ELSE [calls |-> <<c1, c2, c3>>, ret |-> e3]

\* Level of a fake line after a sequence of recorded SetValue calls.
RECURSIVE LevelAfter(_, _)
LevelAfter(old, cs) ==
    IF cs = <<>> THEN old
    ELSE LevelAfter(LineAfter(old, Head(cs).level, Head(cs).err), Tail(cs))

----------------------------------------------------------------------------
(* State machine *)

NoOp == [name |-> "none", members |-> <<>>, nums |-> <<>>]

Init ==
    /\ pc = "idle"
    /\ op = NoOp
    /\ calls = <<>>
    /\ ret = "none"
    /\ dcLevel = "unset"
    /\ resetLevel = "unset"

\* A configuration operation: return disp.sendCommand(data).
Command(name, members, nums, data) ==
    /\ pc = "idle"
    /\ \E dcErr \in {"nil"} \cup Errors :
       \E wr \in WriteAnswers(data) :
          LET r == sendCommand(data, dcErr, wr)
          IN  /\ calls' = r.calls
              /\ ret' = r.ret
              /\ dcLevel' = LevelAfter(dcLevel,
                               SelectSeq(r.calls, LAMBDA c : c.dev = "dc"))
    /\ op' = [name |-> name, members |-> members, nums |-> nums]
    /\ pc' = "done"
    /\ UNCHANGED resetLevel

Reset ==
    /\ pc = "idle"
    /\ \E e1, e2, e3 \in {"nil"} \cup Errors :
          LET r == ResetRun(e1, e2, e3)
          IN  /\ calls' = r.calls
              /\ ret' = r.ret
              /\ resetLevel' = LevelAfter(resetLevel, r.calls)
    /\ op' = [name |-> "Reset", members |-> <<>>, nums |-> <<>>]
    /\ pc' = "done"
    /\ UNCHANGED dcLevel

Invert   == Command("Invert", <<>>, <<>>, InvertCmd)
Uninvert == Command("Uninvert", <<>>, <<>>, UninvertCmd)
TurnOff  == Command("TurnOff", <<>>, <<>>, TurnOffCmd)
TurnOn   == Command("TurnOn", <<>>, <<>>, TurnOnCmd)

SetChargePump ==
    \E setting \in ChargePumpSetting :
        Command("SetChargePump", <<setting>>, <<>>, SetChargePumpCmd(setting))

ConfigureClock ==
    \E clkDivRatio \in LowProbes, oscFreqSetting \in HighProbes :
        Command("ConfigureClock", <<>>, <<clkDivRatio, oscFreqSetting>>,
                ConfigureClockCmd(clkDivRatio, oscFreqSetting))

ForceEntireDisplayOn ==
    Command("ForceEntireDisplayOn", <<>>, <<>>, ForceEntireDisplayOnCmd)

StopForcingEntireDisplayOn ==
    Command("StopForcingEntireDisplayOn", <<>>, <<>>,
            StopForcingEntireDisplayOnCmd)

SetComOutputScanDirection ==
    \E direction \in ComOutputScanDirection :
        Command("SetComOutputScanDirection", <<direction>>, <<>>,
                SetComOutputScanDirectionCmd(direction))

ConfigureComPinsHardware ==
    \E pinConfig \in ComPinConfig, leftRightRemap \in LeftRightRemap :
        Command("ConfigureComPinsHardware", <<pinConfig, leftRightRemap>>, <<>>,
                ConfigureComPinsHardwareCmd(pinConfig, leftRightRemap))

SetContrast ==
    \E contrast \in Byte :
        Command("SetContrast", <<>>, <<contrast>>, SetContrastCmd(contrast))

SetOffset ==
    \E offset \in Byte :
        Command("SetOffset", <<>>, <<offset>>, SetOffsetCmd(offset))

SetStartLine ==
    \E startLine \in Byte :
        Command("SetStartLine", <<>>, <<startLine>>, SetStartLineCmd(startLine))

SetMemoryAddressingMode ==
    \E mode \in MemoryAddressingMode :
        Command("SetMemoryAddressingMode", <<mode>>, <<>>,
                SetMemoryAddressingModeCmd(mode))

SetMultiplexRatio ==
    \E ratio \in Byte :
        Command("SetMultiplexRatio", <<>>, <<ratio>>, SetMultiplexRatioCmd(ratio))

SetPrechargePeriod ==
    \E phase1Ticks \in LowProbes, phase2Ticks \in HighProbes :
        Command("SetPrechargePeriod", <<>>, <<phase1Ticks, phase2Ticks>>,
                SetPrechargePeriodCmd(phase1Ticks, phase2Ticks))

SetSegmentRemap ==
    \E mode \in SegmentRemapMode :
        Command("SetSegmentRemap", <<mode>>, <<>>, SetSegmentRemapCmd(mode))

SetVcomhDeselectLevel ==
    \E level \in VcomhDeselectLevel :
        Command("SetVcomhDeselectLevel", <<level>>, <<>>,
                SetVcomhDeselectLevelCmd(level))

\* The caller has the result; the driver keeps nothing of the call.  The
\* lines keep their levels.
Return ==
    /\ pc = "done"
    /\ pc' = "idle"
    /\ op' = NoOp
    /\ calls' = <<>>
    /\ ret' = "none"
    /\ UNCHANGED <<dcLevel, resetLevel>>

Next ==
    \/ Reset
    \/ Invert
    \/ Uninvert
    \/ TurnOff
    \/ TurnOn
    \/ SetChargePump
    \/ ConfigureClock
    \/ ForceEntireDisplayOn
    \/ StopForcingEntireDisplayOn
    \/ SetComOutputScanDirection
    \/ ConfigureComPinsHardware
    \/ SetContrast
    \/ SetOffset
    \/ SetStartLine
    \/ SetMemoryAddressingMode
    \/ SetMultiplexRatio
    \/ SetPrechargePeriod
    \/ SetSegmentRemap
    \/ SetVcomhDeselectLevel
    \/ Return

Spec == Init /\ [][Next]_vars

----------------------------------------------------------------------------
(* Vocabulary of the properties *)

ConfigOps ==
    {"Invert", "Uninvert", "TurnOff", "TurnOn", "SetChargePump",
     "ConfigureClock", "ForceEntireDisplayOn", "StopForcingEntireDisplayOn",
     "SetComOutputScanDirection", "ConfigureComPinsHardware", "SetContrast",
     "SetOffset", "SetStartLine", "SetMemoryAddressingMode",
     "SetMultiplexRatio", "SetPrechargePeriod", "SetSegmentRemap",
     "SetVcomhDeselectLevel"}

\* A configuration operation has returned.
ConfigDone == pc = "done" /\ op.name \in ConfigOps

\* Positions in `calls` of the bus writes, of the select-line calls, and of
\* the calls that reported an error.
WriteAt  == {i \in 1 .. Len(calls) : calls[i].dev = "spi"}
SelectAt == {i \in 1 .. Len(calls) : calls[i].dev = "dc"}
FailedAt == {i \in 1 .. Len(calls) : calls[i].err # "nil"}

\* The bytes the operation put on the bus (its only write), <<>> if none.
Written == IF WriteAt = {} THEN <<>> ELSE calls[CHOOSE i \in WriteAt : TRUE].data

ResetLevels == <<"High", "Low", "High">>

----------------------------------------------------------------------------
(* C1 *)

\* C1: every configuration operation sets the select line to Low right
\* before its bus write; every call on the select line, by any operation, is
\* SetValue(Low), so the select line is never driven High.
C1_SelectLowBeforeWrite ==
    /\ \A i \in SelectAt : calls[i].level = "Low"
    /\ \A i \in WriteAt : i > 1 /\ calls[i - 1].dev = "dc"
                                /\ calls[i - 1].level = "Low"
    /\ ConfigDone => WriteAt # {}
    /\ dcLevel # "High"

\* A command went out after the select line was successfully set Low.
C1_Witness ==
    /\ ConfigDone
    /\ Len(calls) = 2
    /\ calls[1] = LineCall("dc", "Low", "nil")
    /\ calls[2].dev = "spi"
    /\ dcLevel = "Low"

----------------------------------------------------------------------------
(* C2 *)

\* C2: the calls Reset makes are a prefix of SetValue(High), SetValue(Low),
\* SetValue(High) on the reset line; every call but the last succeeded;
\* Reset returns what the last call made reported, so it returns the error of
\* the first failing call, makes no call after it, and returns success only
\* after three successful calls.
C2_ResetPrefix ==
    (pc = "done" /\ op.name = "Reset") =>
        /\ Len(calls) \in 1 .. 3
        /\ \A i \in 1 .. Len(calls) :
              /\ calls[i].dev = "reset"
              /\ calls[i].level = ResetLevels[i]
              /\ (i < Len(calls) => calls[i].err = "nil")
        /\ ret = calls[Len(calls)].err
        /\ (Len(calls) < 3 => ret # "nil")
        /\ (ret = "nil" => Len(calls) = 3)

\* The second SetValue failed: two calls were made and its error returned.
C2_Witness ==
    /\ pc = "done" /\ op.name = "Reset"
    /\ Len(calls) = 2
    /\ calls[1].err = "nil"
    /\ calls[2].err = "EACCES"
    /\ ret = "EACCES"
    /\ resetLevel = "High"

----------------------------------------------------------------------------
(* C3 *)

\* C3: a configuration operation makes exactly one bus write, as its last
\* call; when that write reports no error, the operation fails with the
\* short-write error if the reported count differs from the length of the
\* command, and succeeds if the count equals it.
C3_ShortWrite ==
    ConfigDone =>
        /\ Cardinality(WriteAt) = 1
        /\ WriteAt = {Len(calls)}
        /\ \A i \in WriteAt :
              calls[i].err = "nil" =>
                 /\ (calls[i].n # Len(calls[i].data) => ret = "Short write")
                 /\ (calls[i].n = Len(calls[i].data) => ret = "nil")

\* A two-byte command of which the bus accepted one byte without an error.
C3_Witness ==
    /\ ConfigDone
    /\ \E i \in WriteAt :
          /\ Len(calls[i].data) = 2
          /\ calls[i].n = 1
          /\ calls[i].err = "nil"
    /\ ret = "Short write"

----------------------------------------------------------------------------
(* C4 *)

\* C4: whenever a collaborator call of an operation reports an error, that
\* call is the operation's last call and the operation returns an error.
C4_ErrorsPropagate ==
    pc = "done" =>
        \A i \in FailedAt : i = Len(calls) /\ ret # "nil"

----------------------------------------------------------------------------
(* C5 *)

\* The SSD1306 datasheet's value for each named setting: charge pump
\* (command 8Dh: A[2] = 1 enable, 14h; A[2] = 0 disable, 10h), memory
\* addressing mode (20h), segment re-map (A0h/A1h), COM output scan direction
\* (C0h/C8h), VCOMH deselect level (DBh) and COM pins configuration (DAh:
\* A[4] alternative, A[5] left/right remap).
DatasheetByte(m) ==
    CASE m = "ChargePumpDisabled"       -> 16
      [] m = "ChargePumpEnabled"        -> 20
      [] m = "HorizontalAddressing"     -> 0
      [] m = "VerticalAddressing"       -> 1
      [] m = "PageAddressing"           -> 2
      [] m = "Map0ToSeg0"               -> 0
      [] m = "Map127ToSeg0"             -> 1
      [] m = "ScanAscending"            -> 192
      [] m = "ScanDescending"           -> 200
      [] m = "VccTimesPoint65"          -> 0
      [] m = "VccTimesPoint77"          -> 32
      [] m = "VccTimesPoint83"          -> 48
      [] m = "SequentialComPinConfig"   -> 0
      [] m = "AlternativeComPinConfig"  -> 16
      [] m = "DisableComLeftRightRemap" -> 0
      [] m = "EnableComLeftRightRemap"  -> 32

\* The byte an operation with one enumerated argument must transmit for the
\* member m, given the datasheet's value for m.
DatasheetCmd(name, m) ==
    CASE name = "SetChargePump"             -> <<141, DatasheetByte(m)>>
      [] name = "SetMemoryAddressingMode"   -> <<32, DatasheetByte(m)>>
      [] name = "SetSegmentRemap"           -> <<160 + DatasheetByte(m)>>
      [] name = "SetComOutputScanDirection" -> <<DatasheetByte(m)>>
      [] name = "SetVcomhDeselectLevel"     -> <<219, DatasheetByte(m)>>

\* C5: for every enumerated setting and every member, the bytes transmitted
\* carry the datasheet's value for the setting the member names.
C5_EnumBytesMatchDatasheet ==
    /\ (ConfigDone /\ Len(op.members) = 1) =>
          Written = DatasheetCmd(op.name, op.members[1])
    /\ (ConfigDone /\ op.name = "ConfigureComPinsHardware") =>
          Written = <<218, 2 + DatasheetByte(op.members[1])
                             + DatasheetByte(op.members[2])>>

----------------------------------------------------------------------------
(* C6, C7, C8 *)

\* C6: ConfigureClock(div, freq) writes two bytes, the second being
\* (freq << 4) | (div & 0xF) modulo 256.
C6_ClockPacksLowNibble ==
    (ConfigDone /\ op.name = "ConfigureClock") =>
        /\ Len(Written) = 2
        /\ Written[2] = ((op.nums[2] * 16) % 256) + (op.nums[1] % 16)

\* C7: SetStartLine(n) writes the single byte 0x40 | (n & 0x3F), which lies
\* in 0x40..0x7F.
C7_StartLineMasked ==
    (ConfigDone /\ op.name = "SetStartLine") =>
        /\ Written = <<64 + (op.nums[1] % 64)>>
        /\ Written[1] \in 64 .. 127

\* C8: SetPrechargePeriod(p1, p2) writes two bytes, the second being
\* (p2 << 4) | (p1 & 0xF) modulo 256.
C8_PrechargePacksLowNibble ==
    (ConfigDone /\ op.name = "SetPrechargePeriod") =>
        /\ Len(Written) = 2
        /\ Written[2] = ((op.nums[2] * 16) % 256) + (op.nums[1] % 16)

----------------------------------------------------------------------------
(* C9 *)

\* Bit k (bit 0 the least significant) of the byte x.
Bit(x, k) == (x \div (2 ^ k)) % 2

\* C9 as stated: ConfigureComPinsHardware writes 0xDA and a packed byte that
\* has bit 2 set, OR'd with the pin-config and remap values, no other bit.
C9_Bit2Set ==
    (ConfigDone /\ op.name = "ConfigureComPinsHardware") =>
        /\ Len(Written) = 2
        /\ Written[1] = 218
        /\ Written[2] = 4 + (IF op.members[1] = "AlternativeComPinConfig" THEN 16 ELSE 0)
                          + (IF op.members[2] = "EnableComLeftRightRemap" THEN 32 ELSE 0)

\* C9 amended: ConfigureComPinsHardware writes exactly two bytes, 0xDA and
\* a packed byte in which bit 1 (the value 0x02) is always set, bit 4 is set
\* exactly for AlternativeComPinConfig, bit 5 exactly for
\* EnableComLeftRightRemap, and no other bit is set.
C9_Bit1Set ==
    (ConfigDone /\ op.name = "ConfigureComPinsHardware") =>
        /\ Len(Written) = 2
        /\ Written[1] = 218
        /\ Bit(Written[2], 1) = 1
        /\ Bit(Written[2], 4) = 1 <=> op.members[1] = "AlternativeComPinConfig"
        /\ Bit(Written[2], 5) = 1 <=> op.members[2] = "EnableComLeftRightRemap"
        /\ \A k \in {0, 2, 3, 6, 7} : Bit(Written[2], k) = 0

\* Alternative pin configuration with left/right remap: 0xDA 0x32.
C9_Witness ==
    /\ ConfigDone /\ op.name = "ConfigureComPinsHardware"
    /\ op.members = <<"AlternativeComPinConfig", "EnableComLeftRightRemap">>
    /\ Written = <<218, 50>>
    /\ ret = "nil"

----------------------------------------------------------------------------
(* C10 *)

OpcodeArgOps ==
    {"SetChargePump", "ConfigureClock", "ConfigureComPinsHardware",
     "SetContrast", "SetOffset", "SetMemoryAddressingMode",
     "SetMultiplexRatio", "SetPrechargePeriod", "SetVcomhDeselectLevel"}

\* Every byte sequence the operation `name` can write, over its arguments.
CmdsOf(name) ==
    CASE name = "SetChargePump" ->
            {SetChargePumpCmd(s) : s \in ChargePumpSetting}
      [] name = "ConfigureClock" ->
            {ConfigureClockCmd(d, f) : d \in LowProbes, f \in HighProbes}
      [] name = "ConfigureComPinsHardware" ->
            {ConfigureComPinsHardwareCmd(p, r) : p \in ComPinConfig, r \in LeftRightRemap}
      [] name = "SetContrast" -> {SetContrastCmd(c) : c \in Byte}
      [] name = "SetOffset" -> {SetOffsetCmd(o) : o \in Byte}
      [] name = "SetMemoryAddressingMode" ->
            {SetMemoryAddressingModeCmd(m) : m \in MemoryAddressingMode}
      [] name = "SetMultiplexRatio" -> {SetMultiplexRatioCmd(r) : r \in Byte}
      [] name = "SetPrechargePeriod" ->
            {SetPrechargePeriodCmd(a, b) : a \in LowProbes, b \in HighProbes}
      [] name = "SetVcomhDeselectLevel" ->
            {SetVcomhDeselectLevelCmd(l) : l \in VcomhDeselectLevel}

\* C10: the first byte written by an opcode-plus-argument operation is
\* written by no other such operation, whatever its arguments, so no other
\* operation can write the same byte sequence.
C10_OpcodeIdentifiesOperation ==
    (ConfigDone /\ op.name \in OpcodeArgOps) =>
        \A other \in OpcodeArgOps \ {op.name} :
            \A cmd \in CmdsOf(other) :
                /\ cmd[1] # Written[1]
                /\ cmd # Written

=============================================================================
